---- MODULE Spec2Model ----
(***************************************************************************)
(* Model of the MermaidEditor component of src/App.tsx: the render effect  *)
(* and renderDiagram, the node double-click / edit overlay / commit path,  *)
(* and the pan/zoom viewport.                                              *)
(*                                                                         *)
(* Text is a sequence of one-character strings.  Pixel quantities are      *)
(* integers; scale is kept in thousandths (1000 = scale 1), which is the   *)
(* granularity of the wheel handler (deltaY * 0.001); quotients by scale   *)
(* are kept as exact fractions [n, d].  The words graph, flowchart, the     *)
(* direction keywords and the arrow --> are single elements of a text.     *)
(* The alphabet has no "$", so the                                         *)
(* replacement string of String.replace contains no "$" escapes other      *)
(* than the $1 and $3 the code writes.                                     *)
(***************************************************************************)
EXTENDS Integers, Sequences, FiniteSets, TLC

VARIABLES
    code,         \* props.code = diagramState.mermaidCode
    theme,        \* MermaidEditor theme state
    svgContent,   \* displayed svg: which source/theme it was rendered from
    error,        \* error state: NULL or [msg |-> ...]
    pending,      \* renderDiagram calls suspended at `await mermaid.render`
    reqCount,     \* number of mermaid.render calls issued so far
    latest,       \* the most recently issued renderDiagram call and its outcome
    scale,        \* viewport scale, in thousandths
    position,     \* viewport translation, pixels
    isDragging,
    dragStart,
    panMode,
    editingNode,  \* NULL or the edit session
    clicked,      \* what the double-click that opened the current session measured
    lastEvent,    \* the event handled by the last step, with its inputs
    orientation,  \* MermaidEditor orientation state
    activeTab,    \* App: "MERMAID" or "EXCALIDRAW"
    isLoading,    \* App
    isDarkMode,   \* App
    excalidrawElements,  \* diagramState.excalidrawElements
    title,        \* diagramState.title
    history,      \* App history state
    generating,   \* handleGenerate calls suspended at `await generateDiagramCode`
    alert,        \* NULL or [msg |-> text of the alert() the last generation step showed]
    localStorage, \* the 'diagram_history' item, or NULL
    converting,   \* handleConvertToExcalidraw calls suspended at an await
    excalidrawAPI,  \* ExcalidrawWrapper: the API object has been handed over
    scene         \* what the scene library last received through updateScene

renderVars == <<svgContent, error, pending, reqCount, latest>>
viewVars   == <<scale, position, isDragging, dragStart>>
editVars   == <<editingNode, clicked>>
toolVars   == <<orientation>>
appVars    == <<activeTab, isLoading, isDarkMode, excalidrawElements, title,
                history, generating, alert, localStorage, converting>>
sceneVars  == <<excalidrawAPI, scene>>
vars == <<code, theme, svgContent, error, pending, reqCount, latest,
          scale, position, isDragging, dragStart, panMode,
          editingNode, clicked, lastEvent, orientation,
          activeTab, isLoading, isDarkMode, excalidrawElements, title,
          history, generating, alert, localStorage, converting,
          excalidrawAPI, scene>>

NULL == [null |-> TRUE]

(***************************************************************************)
(* Bounds                                                                  *)
(***************************************************************************)
MaxRequests == 3   \* mermaid.render calls issued in one behaviour
MaxDraftLen == 3   \* length of the text typed into the edit overlay
MaxPan      == 80  \* largest |translation| a drag is followed to, pixels
MaxCodeLen  == 12  \* length of the source that shape injection is followed to
MaxElements == 2   \* length of the shape list handed to ExcalidrawWrapper
MaxHistory  == 2   \* number of history items up to which generations are started

(***************************************************************************)
(* Characters                                                              *)
(***************************************************************************)
WS       == {" ", "\n"}                    \* matched by [\s], removed by trim()
Openers  == {"[", "(", "{", ">", "/"}      \* group 1 of the commit regex
Closers  == {"]", ")", "}", "\\"}          \* group 3 of the commit regex
IdChars  == {"A", "B"}

RECURSIVE TrimStart(_)
TrimStart(s) ==
    IF s # <<>> /\ Head(s) \in WS THEN TrimStart(Tail(s)) ELSE s

RECURSIVE TrimEnd(_)
TrimEnd(s) ==
    IF s # <<>> /\ s[Len(s)] \in WS THEN TrimEnd(SubSeq(s, 1, Len(s) - 1)) ELSE s

Trim(s) == TrimEnd(TrimStart(s))

\* number of consecutive whitespace characters of s starting at index p
RECURSIVE WsRun(_, _)
WsRun(s, p) ==
    IF p <= Len(s) /\ s[p] \in WS THEN 1 + WsRun(s, p + 1) ELSE 0

Max(S) == CHOOSE m \in S : \A n \in S : n <= m

(***************************************************************************)
(* The commit regex of submitNodeUpdate: group 1 is one opening delimiter,  *)
(* group 2 is optional whitespace, OLD, optional whitespace, and group 3   *)
(* is one closing delimiter; OLD is the old text with every regex          *)
(* metacharacter escaped, so                                               *)
(* that it matches literally.                                              *)
(***************************************************************************)
\* the numbers i of leading whitespace characters with which the regex
\* matches s starting at index p
LeadChoices(s, p, old) ==
    IF p > Len(s) \/ s[p] \notin Openers THEN {}
    ELSE { i \in 0..WsRun(s, p + 1) :
             LET b == p + i + 1              \* first index of OLD
                 e == p + i + Len(old)       \* last index of OLD
                 c == e + WsRun(s, e + 1) + 1 \* index of the closer
             IN  /\ e <= Len(s)
                 /\ SubSeq(s, b, e) = old
                 /\ c <= Len(s)
                 /\ s[c] \in Closers }

MatchAt(s, p, old) == LeadChoices(s, p, old) # {}

\* index of the closing delimiter of the match at p ([\s]* is greedy)
MatchEnd(s, p, old) ==
    LET i == Max(LeadChoices(s, p, old))
        e == p + i + Len(old)
    IN  e + WsRun(s, e + 1) + 1

\* s.replace(regex /g, `$1${new}$3`), scanning from index p
RECURSIVE ReplaceFrom(_, _, _, _)
ReplaceFrom(s, p, old, new) ==
    IF p > Len(s) THEN <<>>
    ELSE IF MatchAt(s, p, old)
         THEN LET c == MatchEnd(s, p, old)
              IN  <<s[p]>> \o new \o <<s[c]>> \o ReplaceFrom(s, c + 1, old, new)
         ELSE <<s[p]>> \o ReplaceFrom(s, p + 1, old, new)

RegexReplace(s, old, new) == ReplaceFrom(s, 1, old, new)

(***************************************************************************)
(* Inputs                                                                  *)
(***************************************************************************)
InitCode == <<"A", "[", "x", "]">>

\* texts the user can put into the code textarea
EditSources ==
    { InitCode,
      <<"A", "[", " ", "x", "]", "B", "[", " ", "x", "]">>,
      <<"A", "\n", "B", "(", " ", "y", " ", ")">>,
      <<"B">>,
      <<>> }

RenderSources ==
    { InitCode,
      <<"A", "[", "x", "]", "\n", "B", "[", "x", "]">>,
      <<"B">>,
      <<>>,
      <<" ", "\n">> }

\* texts the user can type into the edit overlay
Drafts == { <<"x">>, <<"y">>, <<"x", "y">>, <<>> }

\* label texts a rendered node can carry
Labels == { <<"x">>, <<"y">>, <<"A">>, <<"B">> }

Themes == {"dark", "default"}

\* err.message of a rejected mermaid.render, as a sequence of phrases;
\* NoMessage is an error that carries no message
NoMessage == <<>>
LibMessages ==
    { <<"Parse error on line 1">>,
      <<"Could not find a ", "suitable point", " for the given distance">>,
      <<"Cannot ", "read property 'x'", " of undefined">>,
      NoMessage }

(***************************************************************************)
(* Rendering                                                               *)
(***************************************************************************)
EmptySvg  == [empty |-> TRUE]                    \* svgContent === ''
Svg(c, t) == [src |-> c, theme |-> t]            \* what mermaid.render resolves to

\* text labels of the nodes of a rendered scene: the text enclosed in a
\* delimiter pair, or the bare identifier of a node declared without one
NodeLabels(svg) ==
    IF svg = EmptySvg THEN {}
    ELSE LET s == svg.src
         IN  { l \in Labels : \E p \in 1..Len(s) : MatchAt(s, p, l) }
             \cup { <<s[p]>> : p \in { q \in 1..Len(s) :
                                         /\ s[q] \in IdChars
                                         /\ (q = Len(s) \/ s[q + 1] \notin Openers) } }

\* String.includes on a message
Includes(msg, phrase) == \E i \in 1..Len(msg) : msg[i] = phrase

\* the catch block testing for "suitable point" only
ErrorMessage_onlySuitablePoint(m) ==
    LET msg == IF m # NoMessage THEN m ELSE <<"Syntax Error">>
    IN  IF Includes(msg, "suitable point")
        THEN <<"Layout calculation failed. Try simplifying the diagram or switching orientation.">>
        ELSE msg

\* the catch block of renderDiagram
ErrorMessage(m) ==
    LET msg == IF m # NoMessage THEN m ELSE <<"Syntax Error">>
    IN  IF Includes(msg, "suitable point") \/ Includes(msg, "read property 'x'")
        THEN <<"Layout calculation failed. Try simplifying the diagram or switching orientation.">>
        ELSE msg

\* renderDiagram testing the source for emptiness without trim()
renderDiagram_noTrim(c, t) ==
    IF c = <<>>
    THEN /\ svgContent' = EmptySvg
         /\ error' = NULL
         /\ latest' = [id |-> 0, src |-> c, theme |-> t, status |-> "empty"]
         /\ UNCHANGED <<pending, reqCount>>
    ELSE /\ reqCount < MaxRequests
         /\ error' = NULL
         /\ reqCount' = reqCount + 1
         /\ pending' = pending \cup {[id |-> reqCount + 1, src |-> c, theme |-> t]}
         /\ latest' = [id |-> reqCount + 1, src |-> c, theme |-> t, status |-> "pending"]
         /\ UNCHANGED svgContent

\* renderDiagram() up to its first suspension, for source c under theme t
renderDiagram(c, t) ==
    IF Trim(c) = <<>>
    THEN /\ svgContent' = EmptySvg
         /\ error' = NULL
         /\ latest' = [id |-> 0, src |-> c, theme |-> t, status |-> "empty"]
         /\ UNCHANGED <<pending, reqCount>>
    ELSE /\ reqCount < MaxRequests
         /\ error' = NULL
         /\ reqCount' = reqCount + 1
         /\ pending' = pending \cup {[id |-> reqCount + 1, src |-> c, theme |-> t]}
         /\ latest' = [id |-> reqCount + 1, src |-> c, theme |-> t, status |-> "pending"]
         /\ UNCHANGED svgContent

\* useEffect(..., [theme, code]): runs renderDiagram when either changed
RenderEffect ==
    IF code' # code \/ theme' # theme
    THEN renderDiagram(code', theme')
    ELSE UNCHANGED renderVars

\* mermaid.render resolves: renderDiagram resumes at setSvgContent(svg)
RenderResolve(r) ==
    /\ lastEvent' = [type |-> "resolve"]
    /\ r \in pending
    /\ pending' = pending \ {r}
    /\ svgContent' = Svg(r.src, r.theme)
    /\ latest' = IF latest.id = r.id THEN [latest EXCEPT !.status = "ok"] ELSE latest
    /\ UNCHANGED <<code, theme, error, reqCount, panMode>>
    /\ UNCHANGED viewVars
    /\ UNCHANGED editVars
    /\ UNCHANGED <<toolVars, appVars, sceneVars>>

\* mermaid.render rejects with message m: renderDiagram resumes in its catch
RenderReject(r, m) ==
    /\ lastEvent' = [type |-> "reject", message |-> m]
    /\ r \in pending
    /\ pending' = pending \ {r}
    /\ error' = [msg |-> ErrorMessage(m)]
    /\ latest' = IF latest.id = r.id THEN [latest EXCEPT !.status = "error"] ELSE latest
    /\ UNCHANGED <<code, theme, svgContent, reqCount, panMode>>
    /\ UNCHANGED viewVars
    /\ UNCHANGED editVars
    /\ UNCHANGED <<toolVars, appVars, sceneVars>>

\* the code textarea of App: onChange sets diagramState.mermaidCode.  The
\* edit overlay closes on blur, so typing elsewhere finds no session open.
codeOnChange(c) ==
    /\ lastEvent' = [type |-> "code"]
    /\ activeTab = "MERMAID"
    /\ editingNode = NULL
    /\ code' = c
    /\ UNCHANGED <<theme, panMode>>
    /\ RenderEffect
    /\ UNCHANGED viewVars
    /\ UNCHANGED editVars
    /\ UNCHANGED <<toolVars, appVars, sceneVars>>

\* the theme menu: setTheme(t)
setTheme(t) ==
    /\ lastEvent' = [type |-> "theme"]
    /\ editingNode = NULL
    /\ theme' = t
    /\ UNCHANGED <<code, panMode>>
    /\ RenderEffect
    /\ UNCHANGED viewVars
    /\ UNCHANGED editVars
    /\ UNCHANGED <<toolVars, appVars, sceneVars>>

(***************************************************************************)
(* Exact fractions for the quotients by scale                              *)
(***************************************************************************)
Frac(n, d) == [n |-> n, d |-> d]

\* px / scale, scale being in thousandths
DivScale(px, sc) == Frac(px * 1000, sc)

\* f * scale + off, as a fraction
MulScaleAdd(f, sc, off) == Frac(f.n * sc + off * f.d * 1000, f.d * 1000)

\* Math.max(k, f) for an integer k
FracMax(k, f) == IF f.n >= k * f.d THEN f ELSE Frac(k, 1)

FracEq(f, g) == f.n * g.d = g.n * f.d

(***************************************************************************)
(* Node editing                                                            *)
(***************************************************************************)
NoNode == <<"<no node>">>      \* target.closest('.node') is null

\* the nodes a double-click can hit: those of the displayed scene; while an
\* error is displayed the scene container is not rendered
Hittable == IF error = NULL THEN NodeLabels(svgContent) ELSE {}

\* handleNodeDoubleClick without the panMode test
handleNodeDoubleClick_ignoresPanMode(hit, hasText, rect) ==
    /\ lastEvent' = [type |-> "dblclick", node |-> hit # NoNode, pan |-> panMode]
    /\ hit \in Hittable \cup {NoNode}
    /\ IF hit # NoNode /\ hasText
       THEN /\ editingNode' =
                  [ text   |-> hit,
                    top    |-> DivScale(rect.top - position.y, scale),
                    left   |-> DivScale(rect.left - position.x, scale),
                    width  |-> DivScale(rect.width, scale),
                    height |-> DivScale(rect.height, scale) ]
            /\ clicked' = [label |-> hit, rect |-> rect, scale |-> scale,
                           position |-> position, code |-> code]
       ELSE UNCHANGED editVars
    /\ UNCHANGED <<code, theme, panMode>>
    /\ UNCHANGED renderVars
    /\ UNCHANGED viewVars
    /\ UNCHANGED <<toolVars, appVars, sceneVars>>

\* onDoubleClick of the canvas.  hit: label of the node under the pointer or
\* NoNode; hasText: the node has a span/text element; rect: the node's
\* bounding rectangle relative to the container's
handleNodeDoubleClick(hit, hasText, rect) ==
    /\ lastEvent' = [type |-> "dblclick", node |-> hit # NoNode, pan |-> panMode]
    /\ hit \in Hittable \cup {NoNode}
    /\ IF panMode
       THEN UNCHANGED editVars
       ELSE IF hit # NoNode /\ hasText
            THEN /\ editingNode' =
                       [ text   |-> hit,
                         top    |-> DivScale(rect.top - position.y, scale),
                         left   |-> DivScale(rect.left - position.x, scale),
                         width  |-> DivScale(rect.width, scale),
                         height |-> DivScale(rect.height, scale) ]
                 /\ clicked' = [label |-> hit, rect |-> rect, scale |-> scale,
                                position |-> position, code |-> code]
            ELSE UNCHANGED editVars
    /\ UNCHANGED <<code, theme, panMode>>
    /\ UNCHANGED renderVars
    /\ UNCHANGED viewVars
    /\ UNCHANGED <<toolVars, appVars, sceneVars>>

\* onChange of the overlay textarea: the typed text goes into editingNode.text
overlayOnChange(t) ==
    /\ lastEvent' = [type |-> "input"]
    /\ editingNode # NULL
    /\ editingNode' = [editingNode EXCEPT !.text = t]
    /\ UNCHANGED <<code, theme, panMode, clicked>>
    /\ UNCHANGED renderVars
    /\ UNCHANGED viewVars
    /\ UNCHANGED <<toolVars, appVars, sceneVars>>

\* submitNodeUpdate returning early, session still open, when nothing matched
submitNodeUpdate_keepsOpen(newText) ==
    IF editingNode = NULL \/ RegexReplace(code, editingNode.text, newText) = code
    THEN UNCHANGED <<code, editingNode, clicked>> /\ UNCHANGED renderVars
    ELSE /\ code' = RegexReplace(code, editingNode.text, newText)
         /\ RenderEffect
         /\ editingNode' = NULL
         /\ clicked' = NULL

submitNodeUpdate(newText) ==
    IF editingNode = NULL
    THEN UNCHANGED <<code, editingNode, clicked>> /\ UNCHANGED renderVars
    ELSE /\ code' = RegexReplace(code, editingNode.text, newText)
         /\ RenderEffect
         /\ editingNode' = NULL
         /\ clicked' = NULL

\* onKeyDown of the overlay textarea.  Shift+Enter is not prevented, so the
\* textarea inserts the newline and reports it through onChange.
overlayOnKeyDown(key, shiftKey) ==
    /\ editingNode # NULL
    /\ lastEvent' = [type |-> "keydown", key |-> key, shift |-> shiftKey,
                     edited |-> editingNode.text # clicked.label]
    /\ UNCHANGED <<theme, panMode>>
    /\ IF key = "Enter" /\ ~shiftKey
       THEN submitNodeUpdate(editingNode.text)
       ELSE IF key = "Escape"
            THEN /\ editingNode' = NULL
                 /\ clicked' = NULL
                 /\ UNCHANGED code /\ UNCHANGED renderVars
            ELSE IF key = "Enter"
                 THEN /\ Len(editingNode.text) < MaxDraftLen
                      /\ editingNode' = [editingNode EXCEPT !.text = @ \o <<"\n">>]
                      /\ UNCHANGED <<code, clicked>> /\ UNCHANGED renderVars
                 ELSE UNCHANGED <<code, editingNode, clicked>> /\ UNCHANGED renderVars
    /\ UNCHANGED viewVars
    /\ UNCHANGED <<toolVars, appVars, sceneVars>>

\* onBlur committing the draft instead of discarding it
overlayOnBlur_commits ==
    /\ editingNode # NULL
    /\ lastEvent' = [type |-> "blur", edited |-> editingNode.text # clicked.label]
    /\ UNCHANGED <<theme, panMode>>
    /\ submitNodeUpdate(editingNode.text)
    /\ UNCHANGED viewVars
    /\ UNCHANGED <<toolVars, appVars, sceneVars>>

overlayOnBlur ==
    /\ editingNode # NULL
    /\ lastEvent' = [type |-> "blur", edited |-> editingNode.text # clicked.label]
    /\ editingNode' = NULL
    /\ clicked' = NULL
    /\ UNCHANGED <<code, theme, panMode>>
    /\ UNCHANGED renderVars
    /\ UNCHANGED viewVars
    /\ UNCHANGED <<toolVars, appVars, sceneVars>>

\* the Select / Pan buttons of the toolbar
setPanMode(b) ==
    /\ lastEvent' = [type |-> "panmode"]
    /\ editingNode = NULL
    /\ panMode' = b
    /\ UNCHANGED <<code, theme>>
    /\ UNCHANGED renderVars
    /\ UNCHANGED viewVars
    /\ UNCHANGED editVars
    /\ UNCHANGED <<toolVars, appVars, sceneVars>>

(***************************************************************************)
(* Toolbar: orientation toggle and shape injection                         *)
(***************************************************************************)
Keywords   == {"graph", "flowchart"}
Dirs       == {"TD", "LR", "TB", "BT", "RL"}
UpperCase  == Dirs \cup IdChars              \* texts matched by [A-Z]+

\* positions where ^ matches under the m flag
LineStarts(s) == { p \in 1..Len(s) : p = 1 \/ s[p - 1] = "\n" }

\* /^(graph|flowchart)\s+(TD|LR|TB|BT|RL)/m matches at p
HeaderAt(s, p) ==
    /\ p \in LineStarts(s)
    /\ s[p] \in Keywords
    /\ WsRun(s, p + 1) >= 1
    /\ p + WsRun(s, p + 1) + 1 <= Len(s)
    /\ s[p + WsRun(s, p + 1) + 1] \in Dirs

Headers(s) == { p \in 1..Len(s) : HeaderAt(s, p) }

\* code.replace(/^(graph|flowchart)\s+(TD|LR|TB|BT|RL)/m, `$1 ${newDir}`)
ReplaceHeader(s, newDir) ==
    IF Headers(s) = {} THEN s
    ELSE LET p == CHOOSE q \in Headers(s) : \A r \in Headers(s) : q <= r
             d == p + WsRun(s, p + 1) + 1
         IN  SubSeq(s, 1, p) \o <<" ", newDir>> \o SubSeq(s, d + 1, Len(s))

\* number of consecutive [A-Z] texts of s starting at index p
RECURSIVE UpperRun(_, _)
UpperRun(s, p) ==
    IF p <= Len(s) /\ s[p] \in UpperCase THEN 1 + UpperRun(s, p + 1) ELSE 0

\* /(graph|flowchart)\s+[A-Z]+/ matches at p
LooseHeaderAt(s, p) ==
    /\ s[p] \in Keywords
    /\ WsRun(s, p + 1) >= 1
    /\ UpperRun(s, p + WsRun(s, p + 1) + 1) >= 1

LooseHeaders(s) == { p \in 1..Len(s) : LooseHeaderAt(s, p) }

\* code.replace(/(graph|flowchart)\s+[A-Z]+/, `$1 ${newDir}`)
ReplaceLooseHeader(s, newDir) ==
    IF LooseHeaders(s) = {} THEN s
    ELSE LET p == CHOOSE q \in LooseHeaders(s) : \A r \in LooseHeaders(s) : q <= r
             u == p + WsRun(s, p + 1) + 1
             e == u + UpperRun(s, u) - 1
         IN  SubSeq(s, 1, p) \o <<" ", newDir>> \o SubSeq(s, e + 1, Len(s))

\* the source toggleOrientation hands to onChange
ToggledCode(s, newDir) ==
    LET newCode == ReplaceHeader(s, newDir)
    IN  IF newCode = s /\ ~(s # <<>> /\ s[1] \in Keywords)
        THEN <<"graph", " ", newDir, "\n">> \o s
        ELSE IF newCode = s
             THEN ReplaceLooseHeader(s, newDir)
             ELSE newCode

\* the orientation button.  The event records the source before this toggle
\* and, when the previous step was a toggle too, the source before that one.
toggleOrientation ==
    /\ editingNode = NULL
    /\ lastEvent' = [type |-> "toggle",
                     twice |-> lastEvent.type = "toggle",
                     first |-> IF lastEvent.type = "toggle" THEN lastEvent.from ELSE code,
                     from |-> code]
    /\ orientation' = IF orientation = "TD" THEN "LR" ELSE "TD"
    /\ code' = ToggledCode(code, orientation')
    /\ UNCHANGED <<theme, panMode>>
    /\ RenderEffect
    /\ UNCHANGED viewVars
    /\ UNCHANGED editVars
    /\ UNCHANGED <<appVars, sceneVars>>

\* the shape buttons: injectSyntax(syntax)
injectSyntax(syntax) ==
    /\ editingNode = NULL
    /\ Len(code) + 1 + Len(syntax) <= MaxCodeLen
    /\ lastEvent' = [type |-> "inject"]
    /\ code' = code \o <<"\n">> \o syntax
    /\ UNCHANGED <<theme, panMode>>
    /\ RenderEffect
    /\ UNCHANGED viewVars
    /\ UNCHANGED editVars
    /\ UNCHANGED <<toolVars, appVars, sceneVars>>

\* texts the user can put into the code textarea, with and without a header
ToolbarSources ==
    { <<"graph", " ", "TD", "\n", "A", "-->", "B">>,
      <<"graph", " ", "LR", "\n", "A">>,
      <<"flowchart", " ", " ", "TB", "\n", "A">>,
      <<"graph", "\n", "A">>,
      <<"A", "-->", "B">>,
      <<>> }

\* `${uid()}[Rectangle]` and ` --> `
Snippets == { <<"B", "[", "x", "]">>, <<" ", "-->", " ">> }

(***************************************************************************)
(* Viewport                                                                *)
(***************************************************************************)
MinScale == 100     \* 0.1
MaxScale == 5000    \* 5
ZoomStep == 100     \* 0.1

Min2(a, b) == IF a <= b THEN a ELSE b
Max2(a, b) == IF a >= b THEN a ELSE b
Abs(a)     == IF a >= 0 THEN a ELSE -a

\* pointer positions (clientX, clientY) and wheel deltas used as inputs
Points      == { [x |-> 0, y |-> 0], [x |-> 40, y |-> -30] }
WheelDeltas == { -6000, -250, 130, 6000 }

\* the zoom-out button: setScale(s => Math.max(0.1, s - 0.1))
zoomOut ==
    /\ lastEvent' = [type |-> "zoomOut"]
    /\ editingNode = NULL
    /\ scale' = Max2(MinScale, scale - ZoomStep)
    /\ UNCHANGED <<code, theme, panMode, position, isDragging, dragStart>>
    /\ UNCHANGED renderVars
    /\ UNCHANGED editVars
    /\ UNCHANGED <<toolVars, appVars, sceneVars>>

\* the zoom-in button: setScale(s => Math.min(5, s + 0.1))
zoomIn ==
    /\ lastEvent' = [type |-> "zoomIn"]
    /\ editingNode = NULL
    /\ scale' = Min2(MaxScale, scale + ZoomStep)
    /\ UNCHANGED <<code, theme, panMode, position, isDragging, dragStart>>
    /\ UNCHANGED renderVars
    /\ UNCHANGED editVars
    /\ UNCHANGED <<toolVars, appVars, sceneVars>>

\* the percentage and fit buttons: setScale(1); setPosition({x:0,y:0})
resetView ==
    /\ lastEvent' = [type |-> "reset"]
    /\ editingNode = NULL
    /\ scale' = 1000
    /\ position' = [x |-> 0, y |-> 0]
    /\ UNCHANGED <<code, theme, panMode, isDragging, dragStart>>
    /\ UNCHANGED renderVars
    /\ UNCHANGED editVars
    /\ UNCHANGED <<toolVars, appVars, sceneVars>>

\* onWheel without the Math.max(0.1, ...) clamp
onWheel_noLowerClamp(ctrlOrMeta, deltaY) ==
    /\ lastEvent' = [type |-> "wheel", ctrl |-> ctrlOrMeta]
    /\ scale' = IF ctrlOrMeta THEN Min2(MaxScale, scale - deltaY) ELSE scale
    /\ UNCHANGED <<code, theme, panMode, position, isDragging, dragStart>>
    /\ UNCHANGED renderVars
    /\ UNCHANGED editVars
    /\ UNCHANGED <<toolVars, appVars, sceneVars>>

\* onWheel of the canvas; deltaY in units of 1 (scale moves by deltaY * 0.001)
onWheel(ctrlOrMeta, deltaY) ==
    /\ lastEvent' = [type |-> "wheel", ctrl |-> ctrlOrMeta]
    /\ scale' = IF ctrlOrMeta
                THEN Max2(MinScale, Min2(MaxScale, scale - deltaY))
                ELSE scale
    /\ UNCHANGED <<code, theme, panMode, position, isDragging, dragStart>>
    /\ UNCHANGED renderVars
    /\ UNCHANGED editVars
    /\ UNCHANGED <<toolVars, appVars, sceneVars>>

handleMouseDown(button, targetIsDiv, pt) ==
    /\ lastEvent' = [type |-> "mousedown"]
    /\ IF panMode \/ button = 1 \/ targetIsDiv
       THEN /\ isDragging' = TRUE
            /\ dragStart' = [x |-> pt.x - position.x, y |-> pt.y - position.y]
       ELSE UNCHANGED <<isDragging, dragStart>>
    /\ UNCHANGED <<code, theme, panMode, scale, position>>
    /\ UNCHANGED renderVars
    /\ UNCHANGED editVars
    /\ UNCHANGED <<toolVars, appVars, sceneVars>>

handleMouseMove(pt) ==
    /\ lastEvent' = [type |-> "mousemove"]
    /\ IF isDragging
       THEN /\ position' = [x |-> pt.x - dragStart.x, y |-> pt.y - dragStart.y]
            /\ Abs(position'.x) <= MaxPan
            /\ Abs(position'.y) <= MaxPan
       ELSE UNCHANGED position
    /\ UNCHANGED <<code, theme, panMode, scale, isDragging, dragStart>>
    /\ UNCHANGED renderVars
    /\ UNCHANGED editVars
    /\ UNCHANGED <<toolVars, appVars, sceneVars>>

\* onMouseUp and onMouseLeave
handleMouseUp ==
    /\ lastEvent' = [type |-> "mouseup"]
    /\ isDragging' = FALSE
    /\ UNCHANGED <<code, theme, panMode, scale, position, dragStart>>
    /\ UNCHANGED renderVars
    /\ UNCHANGED editVars
    /\ UNCHANGED <<toolVars, appVars, sceneVars>>

\* the overlay's top without the translation added back
OverlayTop_noTranslation == MulScaleAdd(editingNode.top, scale, 0)

\* the style of the overlay textarea
OverlayTop    == MulScaleAdd(editingNode.top, scale, position.y)
OverlayLeft   == MulScaleAdd(editingNode.left, scale, position.x)
OverlayWidth  == FracMax(100, MulScaleAdd(editingNode.width, scale, 0))
OverlayHeight == FracMax(40, MulScaleAdd(editingNode.height, scale, 0))

(***************************************************************************)
(* ExcalidrawWrapper: the elements effect                                  *)
(*                                                                         *)
(* An element is a record holding exactly the properties the object has.   *)
(* Numeric properties hold integers, an id is [name |-> ...] when it came  *)
(* with the input and [index |-> ..., time |-> ...] when generated, every  *)
(* other property holds a string.                                          *)
(***************************************************************************)
NumericProps == {"x", "y", "width", "height", "startX", "startY", "endX", "endY",
                 "fontSize", "roughness", "strokeWidth"}

Has(el, f) == f \in DOMAIN el

\* the value of el[f] is truthy (present, and not 0 or "")
Truthy(el, f) ==
    /\ Has(el, f)
    /\ el[f] # (IF f \in NumericProps THEN 0
                ELSE IF f = "id" THEN [name |-> ""]
                ELSE "")

\* el[f] || dflt
OrElse(el, f, dflt) == IF Truthy(el, f) THEN el[f] ELSE dflt

\* { ...el, [f]: v }
With(el, f, v) == [g \in DOMAIN el \cup {f} |-> IF g = f THEN v ELSE el[g]]

\* elements.some(el => el.id && el.type)
isAlreadyExcalidraw(els) ==
    \E i \in 1..Len(els) : Truthy(els[i], "id") /\ Truthy(els[i], "type")

\* the colour patch recognizing '#000000' and unset strokes but not 'black'
ColorPatch_hexOnly(els, dark) ==
    IF dark
    THEN [i \in 1..Len(els) |->
            IF (Has(els[i], "strokeColor") /\ els[i].strokeColor \in {"#000000"})
               \/ ~Truthy(els[i], "strokeColor")
            THEN With(els[i], "strokeColor", "#e2e8f0")
            ELSE els[i]]
    ELSE els

\* the already-Excalidraw branch: clone, and patch the strokes in dark mode
ColorPatch(els, dark) ==
    IF dark
    THEN [i \in 1..Len(els) |->
            IF (Has(els[i], "strokeColor") /\ els[i].strokeColor \in {"#000000", "black"})
               \/ ~Truthy(els[i], "strokeColor")
            THEN With(els[i], "strokeColor", "#e2e8f0")
            ELSE els[i]]
    ELSE els

\* `base` of the simplified-schema branch, for the item at array index idx
Base(el, idx, dark, now) ==
    [ id              |-> [index |-> idx, time |-> now],
      roughness       |-> 1,
      strokeWidth     |-> 1,
      fillStyle       |-> "solid",
      strokeColor     |-> IF dark THEN "#e2e8f0" ELSE "#1e293b",
      backgroundColor |-> OrElse(el, "backgroundColor", "transparent") ]

\* record r extended (and overridden) by record q
Merge(r, q) == [g \in DOMAIN r \cup DOMAIN q |-> IF g \in DOMAIN q THEN q[g] ELSE r[g]]

Dropped == [dropped |-> TRUE]        \* the callback returned null

\* the callback of elements.map in the simplified-schema branch
MapElement(el, idx, dark, now) ==
    LET base == Base(el, idx, dark, now)
        type == IF Has(el, "type") THEN el.type ELSE ""
    IN  IF type \in {"rectangle", "ellipse"}
        THEN LET shape == Merge(base,
                            [ type   |-> type,
                              x      |-> OrElse(el, "x", 0),
                              y      |-> OrElse(el, "y", 0),
                              width  |-> OrElse(el, "width", 100),
                              height |-> OrElse(el, "height", 50) ])
             IN  IF Truthy(el, "label")
                 THEN With(shape, "label", [text |-> el.label])
                 ELSE shape
        ELSE IF type = "arrow"
        THEN Merge(base,
                   [ type   |-> "arrow",
                     x      |-> OrElse(el, "startX", 0),
                     y      |-> OrElse(el, "startY", 0),
                     points |-> << <<0, 0>>,
                                   << OrElse(el, "endX", 100) - OrElse(el, "startX", 0),
                                      OrElse(el, "endY", 100) - OrElse(el, "startY", 0) >> >> ])
        ELSE IF type = "text"
        THEN Merge(base,
                   [ type        |-> "text",
                     x           |-> OrElse(el, "x", 0),
                     y           |-> OrElse(el, "y", 0),
                     text        |-> IF Truthy(el, "text") THEN el.text
                                     ELSE OrElse(el, "label", "Text"),
                     fontSize    |-> OrElse(el, "fontSize", 20),
                     strokeColor |-> IF dark THEN "#f8fafc" ELSE "#0f172a" ])
        ELSE Dropped

\* ids generated for array indices 0 .. length-1
MapAll(els, dark, now) ==
    SelectSeq([i \in 1..Len(els) |-> MapElement(els[i], i - 1, dark, now)],
              LAMBDA o : o # Dropped)

\* finalElements of the elements effect
Normalize(els, dark, now) ==
    IF isAlreadyExcalidraw(els)
    THEN ColorPatch(els, dark)
    ELSE MapAll(els, dark, now)

\* A value of diagramState.excalidrawElements is [array |-> list of elements],
\* [object |-> ...] or [number |-> ...] for other parsed JSON, or NULL.
IsArray(v) == DOMAIN v = {"array"}

NoScene == [none |-> TRUE]      \* updateScene has not been called with elements
Thrown == [thrown |-> "TypeError"]   \* the effect threw: elements.some is not a function

\* the elements effect, run with the new props after a step that changed
\* elements, excalidrawAPI or isDarkMode while the wrapper is mounted
ElementsEffect(now) ==
    IF activeTab' = "EXCALIDRAW" /\ excalidrawAPI' /\ excalidrawElements' # NULL
    THEN IF IsArray(excalidrawElements')
         THEN scene' = LET final == Normalize(excalidrawElements'.array, isDarkMode', now)
                       IN  IF Len(final) > 0 THEN [elements |-> final] ELSE scene
         ELSE scene' = Thrown
    ELSE UNCHANGED scene

\* <Excalidraw excalidrawAPI={(api) => setExcalidrawAPI(api)} />
apiReady(now) ==
    /\ activeTab = "EXCALIDRAW"
    /\ scene # Thrown
    /\ ~excalidrawAPI
    /\ excalidrawAPI' = TRUE
    /\ lastEvent' = [type |-> "apiReady", now |-> now]
    /\ UNCHANGED appVars
    /\ ElementsEffect(now)
    /\ UNCHANGED <<code, theme, panMode>>
    /\ UNCHANGED <<renderVars, viewVars, editVars, toolVars>>

\* the theme switch of the header: setIsDarkMode(!isDarkMode), followed by
\* the effects that depend on isDarkMode in the mounted editor
toggleTheme(now) ==
    /\ editingNode = NULL
    /\ scene # Thrown
    /\ isDarkMode' = ~isDarkMode
    /\ lastEvent' = [type |-> "toggleTheme", now |-> now]
    /\ UNCHANGED <<activeTab, isLoading, excalidrawElements, title, history,
                   generating, alert, localStorage, converting, excalidrawAPI>>
    /\ UNCHANGED <<code, panMode>>
    /\ IF activeTab = "MERMAID"
       THEN /\ theme' = IF isDarkMode' THEN "dark" ELSE "default"
            /\ RenderEffect
            /\ UNCHANGED scene
       ELSE /\ ElementsEffect(now)
            /\ UNCHANGED theme
            /\ UNCHANGED renderVars
    /\ UNCHANGED <<viewVars, editVars, toolVars>>

\* shape-list items used as inputs
SampleElements ==
    { [type |-> "rectangle"],
      [type |-> "rectangle", x |-> 10, y |-> -5, width |-> 30, height |-> 20,
       label |-> "L", backgroundColor |-> "#e0eaff"],
      [type |-> "ellipse", width |-> 0, height |-> 50],
      [type |-> "rectangle", width |-> -5, height |-> 10],
      [type |-> "arrow", startX |-> 10, startY |-> 20, endX |-> 50, endY |-> -5],
      [type |-> "arrow", endX |-> 0, endY |-> 50],
      [type |-> "arrow"],
      [type |-> "text", text |-> "T", strokeColor |-> "#ff0000"],
      [type |-> "diamond", x |-> 1],
      [id |-> [name |-> "d"]],
      [id |-> [name |-> "a"], type |-> "rectangle", strokeColor |-> "#000000",
       x |-> 0, y |-> 0, width |-> 40, height |-> 20],
      [id |-> [name |-> "b"], type |-> "arrow", strokeColor |-> "black",
       x |-> 0, y |-> 0, points |-> << <<0, 0>>, <<5, 5>> >>],
      [id |-> [name |-> "a"], type |-> "text", x |-> 0, y |-> 0, text |-> "T"],
      [id |-> [name |-> "c"], type |-> "ellipse", strokeColor |-> "#ff0000",
       x |-> 3, y |-> 4, width |-> 5, height |-> 5] }

ElementLists == UNION { [1..n -> SampleElements] : n \in 0..MaxElements }

\* values Date.now() returns
Times == {5, 6}

(***************************************************************************)
(* App: generation                                                         *)
(***************************************************************************)
TitleLen     == 30
HistoryLimit == 20

\* s.slice(0, n)
Slice(s, n) == SubSeq(s, 1, Min2(n, Len(s)))

\* "[fence]" is the code fence of markdown (three backquotes), one character
Fences == {"[fence]mermaid", "[fence]"}

\* generateMermaid: what it returns for the text the model answered
generateMermaid(text) == Trim(SelectSeq(text, LAMBDA ch : ch \notin Fences))

\* generateExcalidrawJSON: what it returns for the text the model answered
generateExcalidrawJSON(text) == IF text = "" THEN "[]" ELSE text

SyntaxError == [error |-> "SyntaxError"]

\* JSON.parse on the texts of ExcalidrawAnswers
JSONParse(text) ==
    CASE text = "[]" -> [array |-> <<>>]
      [] text = "[{\"type\":\"rectangle\"}]" -> [array |-> <<[type |-> "rectangle"]>>]
      [] text = "[{\"type\":\"arrow\",\"endX\":0,\"endY\":50}]"
            -> [array |-> <<[type |-> "arrow", endX |-> 0, endY |-> 50]>>]
      [] text = "{\"type\":\"rectangle\"}" -> [object |-> [type |-> "rectangle"]]
      [] text = "42" -> [number |-> 42]
      [] text = "null" -> NULL
      [] OTHER -> SyntaxError

InvalidDataAlert == "AI generated invalid data structure. Please try again."
GenerationFailedAlert ==
    "Failed to generate diagram. Please check your API key and try again."

\* saveToHistory(newState) as the closure of one render of App runs it
SavedHistory(newState, tab, hist, now) ==
    Slice(<< [ id        |-> now,
               timestamp |-> now,
               type      |-> tab,
               preview   |-> newState.title,
               state     |-> newState ] >> \o hist,
          HistoryLimit)

\* the effects of the mounted editor after diagramState was replaced
EditorEffects(now) ==
    IF activeTab' = "MERMAID"
    THEN /\ RenderEffect
         /\ UNCHANGED scene
    ELSE /\ IF excalidrawElements' # excalidrawElements
            THEN ElementsEffect(now)
            ELSE UNCHANGED scene
         /\ UNCHANGED renderVars

\* handleGenerate up to `await generateDiagramCode(...)`: the values the
\* rest of the call works with are those of the render that created it
handleGenerate(prompt) ==
    /\ ~isLoading
    /\ editingNode = NULL
    /\ scene # Thrown
    /\ Len(history) < MaxHistory
    /\ isLoading' = TRUE
    /\ alert' = NULL
    /\ generating' = generating \cup
          {[ prompt  |-> prompt,
             tab     |-> activeTab,
             state   |-> [mermaidCode |-> code,
                          excalidrawElements |-> excalidrawElements,
                          title |-> title],
             history |-> history ]}
    /\ lastEvent' = [type |-> "generate"]
    /\ UNCHANGED <<activeTab, isDarkMode, excalidrawElements, title, history,
                   localStorage, converting>>
    /\ UNCHANGED <<code, theme, panMode>>
    /\ UNCHANGED <<renderVars, viewVars, editVars, toolVars, sceneVars>>

\* the model answered `text`: handleGenerate resumes after the await
generateResolve(g, text, now) ==
    /\ g \in generating
    /\ generating' = generating \ {g}
    /\ isLoading' = FALSE
    /\ UNCHANGED <<activeTab, isDarkMode, converting, excalidrawAPI>>
    /\ UNCHANGED <<theme, panMode>>
    /\ IF g.tab = "MERMAID"
       THEN LET response == generateMermaid(text)
                newState == [g.state EXCEPT !.mermaidCode = response,
                                            !.title = Slice(g.prompt, TitleLen)]
            IN  /\ lastEvent' = [type |-> "generated", tab |-> g.tab, response |-> response]
                /\ code' = newState.mermaidCode
                /\ excalidrawElements' = newState.excalidrawElements
                /\ title' = newState.title
                /\ history' = SavedHistory(newState, g.tab, g.history, now)
                /\ localStorage' = history'
                /\ alert' = NULL
       ELSE LET response == generateExcalidrawJSON(text)
                elements == JSONParse(response)
                newState == [g.state EXCEPT !.excalidrawElements = elements,
                                            !.title = Slice(g.prompt, TitleLen)]
            IN  /\ lastEvent' = [type |-> "generated", tab |-> g.tab, response |-> response]
                /\ IF elements = SyntaxError
                   THEN /\ alert' = [msg |-> InvalidDataAlert]
                        /\ UNCHANGED <<code, excalidrawElements, title, history, localStorage>>
                   ELSE /\ code' = newState.mermaidCode
                        /\ excalidrawElements' = newState.excalidrawElements
                        /\ title' = newState.title
                        /\ history' = SavedHistory(newState, g.tab, g.history, now)
                        /\ localStorage' = history'
                        /\ alert' = NULL
    /\ EditorEffects(now)
    /\ UNCHANGED <<viewVars, editVars, toolVars>>

\* the outer catch without the finally block
generateReject_keepsLoading(g) ==
    /\ g \in generating
    /\ generating' = generating \ {g}
    /\ UNCHANGED isLoading
    /\ alert' = [msg |-> GenerationFailedAlert]
    /\ lastEvent' = [type |-> "generateFailed"]
    /\ UNCHANGED <<activeTab, isDarkMode, excalidrawElements, title, history,
                   localStorage, converting>>
    /\ UNCHANGED <<code, theme, panMode>>
    /\ UNCHANGED <<renderVars, viewVars, editVars, toolVars, sceneVars>>

\* generateDiagramCode rejected: the outer catch
generateReject(g) ==
    /\ g \in generating
    /\ generating' = generating \ {g}
    /\ isLoading' = FALSE
    /\ alert' = [msg |-> GenerationFailedAlert]
    /\ lastEvent' = [type |-> "generateFailed"]
    /\ UNCHANGED <<activeTab, isDarkMode, excalidrawElements, title, history,
                   localStorage, converting>>
    /\ UNCHANGED <<code, theme, panMode>>
    /\ UNCHANGED <<renderVars, viewVars, editVars, toolVars, sceneVars>>

LongPrompt == [i \in 1..(TitleLen + 1) |-> "p"]

Prompts == { <<"a", " ", "b">>, LongPrompt }

\* texts the model answers on the Mermaid path
MermaidAnswers ==
    { <<"[fence]mermaid", "\n", "graph", " ", "TD", "\n", "A", "\n", "[fence]">>,
      <<"graph", " ", "LR", "\n", "A", "-->", "B">> }

\* texts the model answers on the shape-list path
ExcalidrawAnswers ==
    { "", "[{\"type\":\"rectangle\"}]", "[{\"type\":\"arrow\",\"endX\":0,\"endY\":50}]",
      "{\"type\":\"rectangle\"}", "42", "null", "{not an array}" }

Answers(tab) == IF tab = "MERMAID" THEN MermaidAnswers ELSE ExcalidrawAnswers

(***************************************************************************)
(* App: tabs and conversion                                                *)
(***************************************************************************)
\* MermaidEditor is unmounted: its state is gone (the variables hold what
\* useState will give the next instance) and what its suspended
\* renderDiagram calls set later reaches no component
UnmountEditor ==
    /\ theme' = "dark"
    /\ svgContent' = EmptySvg
    /\ error' = NULL
    /\ pending' = {}
    /\ UNCHANGED <<reqCount, latest>>
    /\ scale' = 1000
    /\ position' = [x |-> 0, y |-> 0]
    /\ isDragging' = FALSE
    /\ dragStart' = [x |-> 0, y |-> 0]
    /\ panMode' = FALSE
    /\ editingNode' = NULL
    /\ clicked' = NULL
    /\ orientation' = "TD"

\* the themes the effects of a new MermaidEditor call renderDiagram under:
\* the mount effect under the initial 'dark', and once more after the theme
\* sync effect changed the theme
MountThemes(dark) == IF dark THEN <<"dark">> ELSE <<"dark", "default">>

\* MermaidEditor is mounted with props code = c and isDarkMode = dark
MountEditor(c, dark) ==
    LET themes == MountThemes(dark)
        n      == Len(themes)
    IN  /\ theme' = themes[n]
        /\ svgContent' = EmptySvg
        /\ error' = NULL
        /\ IF Trim(c) = <<>>
           THEN /\ pending' = {}
                /\ latest' = [id |-> 0, src |-> c, theme |-> themes[n], status |-> "empty"]
                /\ UNCHANGED reqCount
           ELSE /\ reqCount + n <= MaxRequests
                /\ reqCount' = reqCount + n
                /\ pending' = { [id |-> reqCount + k, src |-> c, theme |-> themes[k]] :
                                k \in 1..n }
                /\ latest' = [id |-> reqCount + n, src |-> c, theme |-> themes[n],
                              status |-> "pending"]
        /\ scale' = 1000
        /\ position' = [x |-> 0, y |-> 0]
        /\ isDragging' = FALSE
        /\ dragStart' = [x |-> 0, y |-> 0]
        /\ panMode' = FALSE
        /\ editingNode' = NULL
        /\ clicked' = NULL
        /\ orientation' = "TD"

\* a new ExcalidrawWrapper has no API object yet; one that is unmounted has
\* none any more
ResetWrapper ==
    /\ excalidrawAPI' = FALSE
    /\ scene' = NoScene

\* Sidebar onTabChange = setActiveTab: the other editor is mounted
onTabChange(tab) ==
    /\ tab # activeTab
    /\ editingNode = NULL
    /\ scene # Thrown
    /\ activeTab' = tab
    /\ lastEvent' = [type |-> "tab"]
    /\ UNCHANGED <<isLoading, isDarkMode, excalidrawElements, title, history,
                   generating, alert, localStorage, converting>>
    /\ UNCHANGED code
    /\ IF tab = "MERMAID" THEN MountEditor(code, isDarkMode) ELSE UnmountEditor
    /\ ResetWrapper

\* handleConvertToExcalidraw up to its await: the button is in the export
\* menu of MermaidEditor, under the loading overlay while isLoading
handleConvertToExcalidraw ==
    /\ activeTab = "MERMAID"
    /\ ~isLoading
    /\ editingNode = NULL
    /\ isLoading' = TRUE
    /\ converting' = converting \cup {[mermaidCode |-> code]}
    /\ lastEvent' = [type |-> "convert"]
    /\ UNCHANGED <<activeTab, isDarkMode, excalidrawElements, title, history,
                   generating, alert, localStorage>>
    /\ UNCHANGED <<code, theme, panMode>>
    /\ UNCHANGED <<renderVars, viewVars, editVars, toolVars, sceneVars>>

\* parseMermaidToExcalidraw resolved with els: the state is updated from
\* its latest value and the Excalidraw tab is shown
convertResolve(cv, els, now) ==
    /\ cv \in converting
    /\ scene # Thrown
    /\ converting' = converting \ {cv}
    /\ isLoading' = FALSE
    /\ excalidrawElements' = [array |-> els]
    /\ activeTab' = "EXCALIDRAW"
    /\ lastEvent' = [type |-> "converted"]
    /\ UNCHANGED <<isDarkMode, title, history, generating, alert, localStorage>>
    /\ UNCHANGED code
    /\ IF activeTab = "MERMAID"
       THEN /\ UnmountEditor
            /\ ResetWrapper
       ELSE /\ UNCHANGED excalidrawAPI
            /\ ElementsEffect(now)
            /\ UNCHANGED <<theme, panMode>>
            /\ UNCHANGED <<renderVars, viewVars, editVars, toolVars>>

\* the import or parseMermaidToExcalidraw threw an error with message m
convertReject(cv, m) ==
    /\ cv \in converting
    /\ scene # Thrown
    /\ converting' = converting \ {cv}
    /\ isLoading' = FALSE
    /\ alert' = [msg    |-> "Failed to convert diagram: ",
                 detail |-> IF m = "" THEN "Unknown error" ELSE m,
                 tail   |-> ". Check console for details."]
    /\ lastEvent' = [type |-> "convertFailed"]
    /\ UNCHANGED <<activeTab, isDarkMode, excalidrawElements, title, history,
                   generating, localStorage>>
    /\ UNCHANGED <<code, theme, panMode>>
    /\ UNCHANGED <<renderVars, viewVars, editVars, toolVars, sceneVars>>

ConvertErrors == {"", "Parse error"}

\* source typed while a generation or conversion runs
SyncSources == { <<"A", "[", "y", "]">> }

SyncPrompts == { <<"a", " ", "b">> }

\* answers of the model: a diagram, a shape list, a text that is no JSON
SyncAnswers(tab) ==
    IF tab = "MERMAID"
    THEN { <<"graph", " ", "LR", "\n", "A", "-->", "B">> }
    ELSE { "[{\"type\":\"rectangle\"}]", "{not an array}" }

\* element list parseMermaidToExcalidraw resolves with
SyncLists == { << [id |-> [name |-> "A"], type |-> "rectangle", x |-> 0, y |-> 0,
                   width |-> 40, height |-> 20, label |-> "A"] >> }

\* value Date.now() returns
SyncTimes == {5}

(***************************************************************************)
(* Specifications                                                          *)
(***************************************************************************)
Rect0 == [top |-> 10, left |-> 20, width |-> 120, height |-> 60]
Rects == { Rect0,
           [top |-> -25, left |-> 0, width |-> 50, height |-> 20],
           [top |-> 7, left |-> 33, width |-> 240, height |-> 40] }

\* App as constructed, with an empty stored history, showing the Mermaid tab
InitApp ==
    /\ orientation = "TD"
    /\ activeTab = "MERMAID"
    /\ isLoading = FALSE
    /\ isDarkMode = TRUE
    /\ excalidrawElements = [array |-> <<>>]
    /\ title = <<"Untitled Diagram">>
    /\ history = <<>>
    /\ generating = {}
    /\ alert = NULL
    /\ localStorage = NULL
    /\ converting = {}
    /\ excalidrawAPI = FALSE
    /\ scene = NoScene

\* the component after mounting: the mount effect has called renderDiagram
Init ==
    /\ InitApp
    /\ code = InitCode
    /\ theme = "dark"
    /\ svgContent = EmptySvg
    /\ error = NULL
    /\ pending = {[id |-> 1, src |-> InitCode, theme |-> "dark"]}
    /\ reqCount = 1
    /\ latest = [id |-> 1, src |-> InitCode, theme |-> "dark", status |-> "pending"]
    /\ scale = 1000
    /\ position = [x |-> 0, y |-> 0]
    /\ isDragging = FALSE
    /\ dragStart = [x |-> 0, y |-> 0]
    /\ panMode = FALSE
    /\ editingNode = NULL
    /\ clicked = NULL
    /\ lastEvent = [type |-> "mount"]

\* node editing: the code textarea, the renders and the edit overlay
Next ==
    \/ \E c \in EditSources : codeOnChange(c)
    \/ \E r \in pending : RenderResolve(r)
    \/ \E r \in pending : RenderReject(r, NoMessage)
    \/ \E h \in Labels \cup {NoNode}, b \in BOOLEAN : handleNodeDoubleClick(h, b, Rect0)
    \/ \E t \in Drafts : overlayOnChange(t)
    \/ \E k \in {"Enter", "Escape", "a"}, sh \in BOOLEAN : overlayOnKeyDown(k, sh)
    \/ overlayOnBlur
    \/ \E b \in BOOLEAN : setPanMode(b)

Spec == Init /\ [][Next]_vars

\* rendering: source and theme changes and the renders they start
NextRender ==
    \/ \E c \in RenderSources : codeOnChange(c)
    \/ \E t \in Themes : setTheme(t)
    \/ \E r \in pending : RenderResolve(r)
    \/ \E r \in pending, m \in LibMessages : RenderReject(r, m)

SpecRender == Init /\ [][NextRender]_vars

\* the toolbar: orientation toggle and shape injection
NextToolbar ==
    \/ \E c \in ToolbarSources : codeOnChange(c)
    \/ toggleOrientation
    \/ \E sy \in Snippets : injectSyntax(sy)
    \/ \E r \in pending : RenderResolve(r)
    \/ \E r \in pending : RenderReject(r, NoMessage)

SpecToolbar == Init /\ [][NextToolbar]_vars

\* pan and zoom
NextView ==
    \/ zoomOut
    \/ zoomIn
    \/ resetView
    \/ \E c \in BOOLEAN, d \in WheelDeltas : onWheel(c, d)
    \/ \E bt \in {0, 1}, dv \in BOOLEAN, pt \in Points : handleMouseDown(bt, dv, pt)
    \/ \E pt \in Points : handleMouseMove(pt)
    \/ handleMouseUp
    \/ \E b \in BOOLEAN : setPanMode(b)

SpecView == Init /\ [][NextView]_vars

\* the edit overlay under pan and zoom: the first render has resolved and
\* the user has brought the viewport to one of these scales and translations
OverlayScales    == {MinScale, 333, 1000, 2500, MaxScale}
OverlayPositions == { [x |-> 0, y |-> 0], [x |-> 40, y |-> -30], [x |-> -80, y |-> 60] }

InitOverlay ==
    /\ InitApp
    /\ code = InitCode
    /\ theme = "dark"
    /\ svgContent = Svg(InitCode, "dark")
    /\ error = NULL
    /\ pending = {}
    /\ reqCount = 1
    /\ latest = [id |-> 1, src |-> InitCode, theme |-> "dark", status |-> "ok"]
    /\ scale \in OverlayScales
    /\ position \in OverlayPositions
    /\ isDragging = FALSE
    /\ dragStart = [x |-> 0, y |-> 0]
    /\ panMode = FALSE
    /\ editingNode = NULL
    /\ clicked = NULL
    /\ lastEvent = [type |-> "mount"]

NextOverlay ==
    \/ \E h \in Labels \cup {NoNode}, b \in BOOLEAN, rc \in Rects :
           handleNodeDoubleClick(h, b, rc)
    \/ \E t \in Drafts : overlayOnChange(t)
    \/ overlayOnBlur
    \/ \E c \in BOOLEAN, d \in {-6000, 6000} : onWheel(c, d)

SpecOverlay == InitOverlay /\ [][NextOverlay]_vars

\* the Excalidraw tab showing a shape list; the Mermaid editor is unmounted
InitNormalize ==
    /\ code = InitCode
    /\ theme = "dark"
    /\ svgContent = EmptySvg
    /\ error = NULL
    /\ pending = {}
    /\ reqCount = 1
    /\ latest = [id |-> 1, src |-> InitCode, theme |-> "dark", status |-> "pending"]
    /\ scale = 1000
    /\ position = [x |-> 0, y |-> 0]
    /\ isDragging = FALSE
    /\ dragStart = [x |-> 0, y |-> 0]
    /\ panMode = FALSE
    /\ editingNode = NULL
    /\ clicked = NULL
    /\ lastEvent = [type |-> "tab"]
    /\ orientation = "TD"
    /\ activeTab = "EXCALIDRAW"
    /\ isLoading = FALSE
    /\ isDarkMode \in BOOLEAN
    /\ excalidrawElements \in { [array |-> els] : els \in ElementLists }
    /\ title = <<"Untitled Diagram">>
    /\ history = <<>>
    /\ generating = {}
    /\ alert = NULL
    /\ localStorage = NULL
    /\ converting = {}
    /\ excalidrawAPI = FALSE
    /\ scene = NoScene

NextNormalize ==
    \/ \E now \in Times : apiReady(now)
    \/ \E now \in Times : toggleTheme(now)

SpecNormalize == InitNormalize /\ [][NextNormalize]_vars

\* generation on either tab: the app as opened, or after a click on the
\* Excalidraw tab
InitGenerate ==
    \/ Init
    \/ /\ InitNormalize
       /\ isDarkMode = TRUE
       /\ excalidrawElements = [array |-> <<>>]

NextGenerate ==
    \/ \E prompt \in Prompts : handleGenerate(prompt)
    \/ \E g \in generating, now \in Times :
          \E text \in Answers(g.tab) : generateResolve(g, text, now)
    \/ \E g \in generating : generateReject(g)
    \/ \E now \in Times : apiReady(now)
    \/ \E r \in pending : RenderResolve(r)

SpecGenerate == InitGenerate /\ [][NextGenerate]_vars

\* generation, conversion, tab changes and typing together
NextSync ==
    \/ \E prompt \in SyncPrompts : handleGenerate(prompt)
    \/ \E g \in generating, now \in SyncTimes :
          \E text \in SyncAnswers(g.tab) : generateResolve(g, text, now)
    \/ \E g \in generating : generateReject(g)
    \/ handleConvertToExcalidraw
    \/ \E cv \in converting, els \in SyncLists, now \in SyncTimes :
          convertResolve(cv, els, now)
    \/ \E cv \in converting, m \in ConvertErrors : convertReject(cv, m)
    \/ \E tab \in {"MERMAID", "EXCALIDRAW"} : onTabChange(tab)
    \/ \E c \in SyncSources : codeOnChange(c)
    \/ \E now \in SyncTimes : apiReady(now)
    \/ \E r \in pending : RenderResolve(r)

SpecSync == Init /\ [][NextSync]_vars

\* the awaited call of a generation settles
GenerationSettles ==
    \E g \in generating :
        \/ \E text \in SyncAnswers(g.tab), now \in SyncTimes :
              generateResolve(g, text, now)
        \/ generateReject(g)

\* the awaited calls of a conversion settle
ConversionSettles ==
    \E cv \in converting :
        \/ \E els \in SyncLists, now \in SyncTimes : convertResolve(cv, els, now)
        \/ \E m \in ConvertErrors : convertReject(cv, m)

\* SpecSync where every external call resolves or rejects
SpecSyncLive ==
    /\ SpecSync
    /\ WF_vars(GenerationSettles)
    /\ WF_vars(ConversionSettles)

(***************************************************************************)
(* Properties                                                              *)
(***************************************************************************)
\* the step just taken was a confirm (Enter without Shift) in the overlay
IsCommit ==
    /\ lastEvent'.type = "keydown"
    /\ lastEvent'.key = "Enter"
    /\ ~lastEvent'.shift

\* the step just taken was Escape in the overlay, or the overlay lost focus
IsCancel ==
    \/ lastEvent'.type = "blur"
    \/ lastEvent'.type = "keydown" /\ lastEvent'.key = "Escape"

\* positions in s where old occurs enclosed in a delimiter pair
Matches(s, old) == { p \in 1..Len(s) : MatchAt(s, p, old) }

Min(S) == CHOOSE m \in S : \A n \in S : m <= n

\* s with only its first delimiter-enclosed occurrence of old replaced by
\* new, both delimiters kept
PatchFirst(s, old, new) ==
    IF Matches(s, old) = {} THEN s
    ELSE LET p == Min(Matches(s, old))
             c == MatchEnd(s, p, old)
         IN  SubSeq(s, 1, p) \o new \o SubSeq(s, c, Len(s))

\* C1: once every render has completed and the most recently requested one
\* succeeded, the displayed scene is the render of the most recently
\* requested source.
C1_StaleRenderDiscarded ==
    (pending = {} /\ latest.status = "ok")
        => svgContent = Svg(latest.src, latest.theme)

\* C2: a confirm with a draft N different from the label L captured at the
\* double-click, L occurring delimiter-enclosed in the source, leaves the
\* source with that enclosed L replaced by N between unchanged delimiters.
C2_CommitReplacesLabel ==
    [][ (/\ IsCommit
         /\ editingNode.text # clicked.label
         /\ Matches(code, clicked.label) # {})
        => code' = PatchFirst(code, clicked.label, editingNode.text) ]_vars

\* C3: a confirm rewrites at most one place: when the old label occurs
\* delimiter-enclosed several times, everything after the first occurrence
\* is left exactly as it was.
C3_OnlyFirstOccurrence ==
    [][ (IsCommit /\ Cardinality(Matches(code, clicked.label)) >= 2)
        => LET c == MatchEnd(code, Min(Matches(code, clicked.label)), clicked.label)
               n == Len(code) - c
           IN  /\ Len(code') >= n
               /\ SubSeq(code', Len(code') - n + 1, Len(code'))
                     = SubSeq(code, c + 1, Len(code)) ]_vars

\* C4: a confirm when the source has no delimiter-enclosed occurrence of the
\* session's label leaves the source unchanged and closes the session.
C4_NoMatchNoChange ==
    [][ (IsCommit /\ Matches(code, clicked.label) = {})
        => code' = code /\ editingNode' = NULL ]_vars

\* C5: Escape or loss of focus, after any draft edits, closes the session,
\* leaves the source as it was when the session was opened and starts no
\* render.
C5_CancelKeepsSource ==
    [][ IsCancel
        => /\ editingNode' = NULL
           /\ code' = code
           /\ code' = clicked.code
           /\ UNCHANGED <<pending, reqCount, latest, svgContent, error>> ]_vars

C5_Witness ==
    /\ lastEvent.type = "blur"
    /\ lastEvent.edited
    /\ editingNode = NULL

\* C6: a confirm always leaves no session open; Shift+Enter neither changes
\* the source nor closes the session.
C6_ConfirmCloses ==
    [][ /\ IsCommit => editingNode' = NULL
        /\ (lastEvent'.type = "keydown" /\ lastEvent'.key = "Enter" /\ lastEvent'.shift)
              => /\ editingNode' # NULL
                 /\ code' = code
                 /\ UNCHANGED <<pending, reqCount>> ]_vars

C6_Witness ==
    /\ lastEvent.type = "keydown"
    /\ lastEvent.key = "Enter"
    /\ ~lastEvent.shift
    /\ lastEvent.edited
    /\ editingNode = NULL

\* C7: a double-click in pan mode or with no node under the pointer leaves
\* the edit session state as it was, and a session only ever opens by a
\* double-click on a node while pan mode is off.
C7_NoSessionInPanMode ==
    [][ /\ (lastEvent'.type = "dblclick" /\ (lastEvent'.pan \/ ~lastEvent'.node))
              => editingNode' = editingNode
        /\ (editingNode = NULL /\ editingNode' # NULL)
              => /\ lastEvent'.type = "dblclick"
                 /\ lastEvent'.node
                 /\ ~panMode ]_vars

C7_Witness ==
    /\ lastEvent.type = "dblclick"
    /\ lastEvent.node
    /\ lastEvent.pan
    /\ editingNode = NULL

\* C8: the viewport scale always lies in [0.1, 5.0].
C8_ScaleClamped == MinScale <= scale /\ scale <= MaxScale

C8_Witness ==
    /\ lastEvent.type = "wheel"
    /\ lastEvent.ctrl
    /\ scale = MinScale

\* the overlay sits where the node was measured
OverlayAtMeasuredPosition ==
    /\ FracEq(OverlayTop, Frac(clicked.rect.top, 1))
    /\ FracEq(OverlayLeft, Frac(clicked.rect.left, 1))

ViewportAsClicked ==
    /\ editingNode # NULL
    /\ scale = clicked.scale
    /\ position = clicked.position

\* C9 as stated: with the viewport unchanged since the double-click, the
\* overlay's position and size equal the measured position and size.
C9_OverlayEqualsMeasured ==
    ViewportAsClicked
        => /\ OverlayAtMeasuredPosition
           /\ FracEq(OverlayWidth, Frac(clicked.rect.width, 1))
           /\ FracEq(OverlayHeight, Frac(clicked.rect.height, 1))

\* C9 amended: with the viewport unchanged since the double-click, the
\* overlay's position equals the measured position, and its width and
\* height equal the measured ones but are at least 100 and 40.
C9_OverlayEqualsMeasuredOrMinimum ==
    ViewportAsClicked
        => /\ OverlayAtMeasuredPosition
           /\ FracEq(OverlayWidth, Frac(Max2(100, clicked.rect.width), 1))
           /\ FracEq(OverlayHeight, Frac(Max2(40, clicked.rect.height), 1))

C9_Witness ==
    /\ ViewportAsClicked
    /\ scale # 1000
    /\ position.y # 0
    /\ clicked.rect.width < 100

\* C10: a render request for an empty or whitespace-only source empties
\* the scene, clears the error and does not call mermaid.render.
C10_EmptySourceRendersEmpty ==
    [][ ((code' # code \/ theme' # theme) /\ Trim(code') = <<>>)
        => /\ svgContent' = EmptySvg
           /\ error' = NULL
           /\ UNCHANGED <<pending, reqCount>> ]_vars

C10_Witness ==
    /\ lastEvent.type = "code"
    /\ code # <<>>
    /\ Trim(code) = <<>>
    /\ svgContent = EmptySvg
    /\ error = NULL
    /\ pending # {}

\* the library message belongs to the layout-failure family the catch block
\* recognizes
InLayoutFamily(m) ==
    Includes(m, "suitable point") \/ Includes(m, "read property 'x'")

LayoutFailedText ==
    <<"Layout calculation failed. Try simplifying the diagram or switching orientation.">>

\* C11 as stated: after a render failure the displayed message is the fixed
\* layout text exactly when the library's message is in the recognized
\* family, and the library's message verbatim otherwise.
C11_MessageFixedOrVerbatim ==
    lastEvent.type = "reject"
        => error = [msg |-> IF InLayoutFamily(lastEvent.message)
                            THEN LayoutFailedText
                            ELSE lastEvent.message]

\* C11 amended: as stated, except that a failure carrying no message is
\* displayed as "Syntax Error".
C11_MessageFixedVerbatimOrDefault ==
    lastEvent.type = "reject"
        => error = [msg |-> IF InLayoutFamily(lastEvent.message)
                            THEN LayoutFailedText
                            ELSE IF lastEvent.message = NoMessage
                                 THEN <<"Syntax Error">>
                                 ELSE lastEvent.message]

C11_Witness ==
    /\ lastEvent.type = "reject"
    /\ Includes(lastEvent.message, "read property 'x'")
    /\ error = [msg |-> LayoutFailedText]

\* the header line of s declares direction TD or LR
DeclaresDirection(s) ==
    /\ HeaderAt(s, 1)
    /\ s[WsRun(s, 2) + 2] \in {"TD", "LR"}

\* the direction keyword of the header line, and the text after it
DirectionOf(s) == s[WsRun(s, 2) + 2]
AfterHeader(s) == SubSeq(s, WsRun(s, 2) + 3, Len(s))

\* C12: after two consecutive toggles on a source whose header line declares
\* TD or LR, the header declares the original direction again and the text
\* after the declaration is what it was.
C12_ToggleTwiceRoundTrip ==
    (/\ lastEvent.type = "toggle"
     /\ lastEvent.twice
     /\ DeclaresDirection(lastEvent.first))
        => /\ HeaderAt(code, 1)
           /\ DirectionOf(code) = DirectionOf(lastEvent.first)
           /\ AfterHeader(code) = AfterHeader(lastEvent.first)

\* C13: an orientation toggle or a shape injection always changes the
\* source text and starts a new render.
C13_CommandChangesSource ==
    [][ lastEvent'.type \in {"toggle", "inject"}
        => /\ code' # code
           /\ reqCount' = reqCount + 1
           /\ latest'.src = code' ]_vars

\* the elements effect has just run on the current props, and pushed a scene
ScenePushed ==
    /\ activeTab = "EXCALIDRAW"
    /\ excalidrawAPI
    /\ lastEvent.type \in {"apiReady", "toggleTheme"}
    /\ DOMAIN scene = {"elements"}

\* every item carries an identity and a kind
AllCanonical(els) ==
    \A i \in 1..Len(els) : Truthy(els[i], "id") /\ Truthy(els[i], "type")

\* C14: the list is passed through as already canonical only if every item
\* carries an identity and a kind; otherwise every item is mapped by its kind.
C14_PassThroughOnlyIfEveryItemCanonical ==
    ScenePushed =>
        scene.elements = IF AllCanonical(excalidrawElements.array)
                         THEN ColorPatch(excalidrawElements.array, isDarkMode)
                         ELSE MapAll(excalidrawElements.array, isDarkMode, lastEvent.now)

\* o was produced by the mapping branch (it carries a generated identity)
Generated(o) == Has(o, "id") /\ DOMAIN o.id = {"index", "time"}

\* the descriptor a generated element was mapped from
DescriptorOf(o) == excalidrawElements.array[o.id.index + 1]

KindOf(el) == IF Has(el, "type") THEN el.type ELSE ""

\* the supplied value of a property, or d when the descriptor has none
Supplied(el, f, d) == IF Has(el, f) THEN el[f] ELSE d

\* C15: an arrow descriptor becomes an element anchored at its start point
\* (absent start coordinates count as 0) whose points are (0,0) and
\* (endX - startX, endY - startY), for every supplied end coordinate,
\* 0 and negative values included.
C15_ArrowPointsRelativeToStart ==
    ScenePushed =>
        \A i \in 1..Len(scene.elements) :
            (/\ Generated(scene.elements[i])
             /\ KindOf(DescriptorOf(scene.elements[i])) = "arrow"
             /\ Has(DescriptorOf(scene.elements[i]), "endX")
             /\ Has(DescriptorOf(scene.elements[i]), "endY"))
            => LET el == DescriptorOf(scene.elements[i])
                   sx == Supplied(el, "startX", 0)
                   sy == Supplied(el, "startY", 0)
               IN  /\ scene.elements[i].x = sx
                   /\ scene.elements[i].y = sy
                   /\ scene.elements[i].points = << <<0, 0>>, <<el.endX - sx, el.endY - sy>> >>

\* C16: a rectangle or ellipse descriptor takes x = 0, y = 0, width = 100,
\* height = 50 for each geometry field it lacks, and keeps each field it
\* supplies.
C16_ShapeGeometryDefaults ==
    ScenePushed =>
        \A i \in 1..Len(scene.elements) :
            (/\ Generated(scene.elements[i])
             /\ KindOf(DescriptorOf(scene.elements[i])) \in {"rectangle", "ellipse"})
            => LET el == DescriptorOf(scene.elements[i])
               IN  /\ scene.elements[i].x = Supplied(el, "x", 0)
                   /\ scene.elements[i].y = Supplied(el, "y", 0)
                   /\ scene.elements[i].width = Supplied(el, "width", 100)
                   /\ scene.elements[i].height = Supplied(el, "height", 50)

\* C17: every element of the pushed list has a non-null identity and the
\* identities are pairwise distinct, in both branches.
C17_IdentitiesPresentAndDistinct ==
    ScenePushed =>
        /\ \A i \in 1..Len(scene.elements) : Truthy(scene.elements[i], "id")
        /\ \A i, j \in 1..Len(scene.elements) :
              (i # j /\ Has(scene.elements[i], "id") /\ Has(scene.elements[j], "id"))
              => scene.elements[i].id # scene.elements[j].id

\* C18: every pushed element has a resolved stroke colour and, unless it is
\* an arrow, no negative width or height, in both branches and both themes.
C18_StrokeResolvedAndSizeNonNegative ==
    ScenePushed =>
        \A i \in 1..Len(scene.elements) :
            /\ Truthy(scene.elements[i], "strokeColor")
            /\ KindOf(scene.elements[i]) # "arrow"
               => /\ Has(scene.elements[i], "width") => scene.elements[i].width >= 0
                  /\ Has(scene.elements[i], "height") => scene.elements[i].height >= 0

\* the stroke of el is unset, '#000000' or 'black'
BlackOrUnset(el) ==
    \/ ~Truthy(el, "strokeColor")
    \/ el.strokeColor \in {"#000000", "black"}

\* C19: on an already canonical list the dark-theme colour patch is
\* idempotent; after one pass no stroke is unset, '#000000' or 'black';
\* elements with any other stroke, and all elements in the light theme,
\* are passed through unchanged.
C19_ColorPatchIdempotent ==
    (ScenePushed /\ isAlreadyExcalidraw(excalidrawElements.array)) =>
        /\ Len(scene.elements) = Len(excalidrawElements.array)
        /\ ColorPatch(scene.elements, isDarkMode) = scene.elements
        /\ isDarkMode => \A i \in 1..Len(scene.elements) : ~BlackOrUnset(scene.elements[i])
        /\ \A i \in 1..Len(scene.elements) :
              (~isDarkMode \/ ~BlackOrUnset(excalidrawElements.array[i]))
              => scene.elements[i] = excalidrawElements.array[i]

\* a dark-theme pass over a canonical list holding a 'black' stroke and an
\* unset stroke has been pushed
C19_Witness ==
    /\ ScenePushed
    /\ isDarkMode
    /\ isAlreadyExcalidraw(excalidrawElements.array)
    /\ \E i \in 1..Len(excalidrawElements.array) :
          /\ Has(excalidrawElements.array[i], "strokeColor")
          /\ excalidrawElements.array[i].strokeColor = "black"
    /\ \E i \in 1..Len(excalidrawElements.array) :
          ~Has(excalidrawElements.array[i], "strokeColor")

\* the step completed a shape-list generation whose response is not a
\* parseable JSON array
NotAnArrayResponse ==
    /\ lastEvent'.type = "generated"
    /\ lastEvent'.tab = "EXCALIDRAW"
    /\ ~IsArray(JSONParse(lastEvent'.response))

\* C20: when the response on the shape-list path is not a parseable JSON
\* array (unparseable text, or parseable JSON that is not an array), the
\* invalid-data-structure error is shown and DiagramState (source text,
\* elements, title) and the history are left unchanged.
C20_NotAnArrayIsRejected ==
    [][NotAnArrayResponse =>
          /\ alert' = [msg |-> InvalidDataAlert]
          /\ UNCHANGED <<code, excalidrawElements, title, history>>]_vars

\* DiagramState after the step
DiagramStateNext ==
    [mermaidCode |-> code', excalidrawElements |-> excalidrawElements', title |-> title']

\* the step completed a generation or a conversion successfully
SucceededStep ==
    \/ lastEvent'.type = "converted"
    \/ /\ lastEvent'.type = "generated"
       /\ lastEvent'.tab = "MERMAID" \/ IsArray(JSONParse(lastEvent'.response))

\* the step ended a generation or a conversion in failure
FailedStep ==
    \/ lastEvent'.type \in {"generateFailed", "convertFailed"}
    \/ /\ lastEvent'.type = "generated"
       /\ lastEvent'.tab = "EXCALIDRAW"
       /\ ~IsArray(JSONParse(lastEvent'.response))

\* C21: every successful generation and every successful conversion puts
\* the resulting DiagramState at the head of the history; a failed
\* generation or conversion leaves the history as it was.
C21_SuccessWritesHistory ==
    [][/\ SucceededStep => /\ history' # history
                           /\ Head(history').state = DiagramStateNext
       /\ FailedStep => UNCHANGED history]_vars

\* the step called renderDiagram
RenderRequested ==
    \/ reqCount' # reqCount
    \/ <<latest'.src, latest'.theme>> # <<latest.src, latest.theme>>

\* the step wrote the source text: a text edit that changed the text, an
\* orientation toggle or a shape injection
SourceWritten ==
    \/ lastEvent'.type = "code" /\ code' # code
    \/ lastEvent'.type \in {"toggle", "inject"}

\* C22: every write to the source text causes exactly one new render
\* request, and no render request is issued without a change of the source
\* or the theme.
C22_WriteCausesOneRender ==
    [][/\ SourceWritten => RenderRequested /\ reqCount' <= reqCount + 1
       /\ RenderRequested => code' # code \/ theme' # theme]_vars

\* C23: when a generation completes, the fields it does not produce (the
\* source text for a shape-list generation, the elements for a text
\* generation) keep the values they had immediately before the completion.
C23_GenerationKeepsOtherFields ==
    [][lastEvent'.type = "generated" =>
          IF lastEvent'.tab = "EXCALIDRAW"
          THEN code' = code
          ELSE excalidrawElements' = excalidrawElements]_vars

\* C24: once no render is in flight, an error is displayed if and only if
\* the most recently requested render failed.
C24_ErrorIffLatestFailed ==
    pending = {} => (error # NULL <=> latest.status = "error")

\* C25: the loading flag set at the start of a generation or conversion is
\* eventually cleared, provided the external call resolves or rejects.
C25_LoadingEventuallyCleared == isLoading ~> ~isLoading

\* a generation that ended in the parse failure has cleared the flag
C25_Witness ==
    /\ lastEvent.type = "generated"
    /\ alert = [msg |-> InvalidDataAlert]
    /\ ~isLoading

====
